---- MODULE Spec2Model ----
(***************************************************************************)
(* Model of app.py: a Flask service with three routes (/, /metrics,        *)
(* /error) instrumented with OpenTelemetry traces, metrics and logs.       *)
(* Each request is a thread running its handler statement by statement;    *)
(* the SDK's batch processors and the periodic metric reader run in the    *)
(* background and export to a collector that may be unreachable.           *)
(***************************************************************************)
EXTENDS Integers, FiniteSets, Bags, TLC

\* ---- bounds ----
MaxReq == 2
Req == 1..MaxReq

\* ---- inputs drawn by the handlers ----
\* random.random() in hundredths: 0.00, 0.09, 0.10, 0.99
RandomDraws == {0, 9, 10, 99}
\* random.randint(-1, 1)
UserDeltas == {-1, 0, 1}
\* random.randint(50, 200), random.randint(1000000, 2000000), random.uniform(10, 90)
ActiveUsersDraws == {50, 200}
MemoryDraws == {1000000}
CpuDraws == {10}

Endpoints == {"/", "/metrics", "/error"}

\* ---- startup: resource and providers ----
resource == [service_name |-> "simple-app"]
NoResource == [service_name |-> ""]

logger_provider == [resource |-> resource]
trace_provider == [resource |-> resource]

meter_provider_default == [resource |-> [service_name |-> "unknown_service"]]
meter_provider == [resource |-> resource]

\* logging.basicConfig(level=logging.INFO): numeric levels of the logging module
LevelNo(level) ==
    CASE level = "DEBUG" -> 10
      [] level = "INFO" -> 20
      [] level = "WARNING" -> 30
      [] level = "ERROR" -> 40
basicConfigLevel == 20

LogRecord(level, body, sp) ==
    [resource |-> logger_provider.resource, level |-> level, body |-> body, span |-> sp]

\* logger.<level>(body): dropped below the effective level, else handed to the
\* BatchLogRecordProcessor queue through the LoggingHandler
logger(q, level, body, sp) ==
    IF LevelNo(level) >= basicConfigLevel
    THEN q (+) SetToBag({LogRecord(level, body, sp)})
    ELSE q

\* ---- values of the handlers ----
NoSpan == [name |-> "", attributes |-> {}, status |-> "UNSET", ended |-> 0,
           resource |-> NoResource]
NoResp == [status |-> 0, body |-> [none |-> TRUE]]

start_as_current_span(name) ==
    [name |-> name, attributes |-> {}, status |-> "UNSET", ended |-> 0,
     resource |-> trace_provider.resource]

ErrorBody == [error |-> "Simulated error"]
HelloBody == [message |-> "Hello, OpenTelemetry!"]

VARIABLES pc, route, span, resp,
          request_counter, request_duration, active_users, error_counter,
          span_queue, log_queue,
          last_export

vars == <<pc, route, span, resp,
          request_counter, request_duration, active_users, error_counter,
          span_queue, log_queue,
          last_export>>

metricVars == <<request_counter, request_duration, active_users, error_counter>>
exportVars == <<last_export>>

Init ==
    /\ pc = [r \in Req |-> "idle"]
    /\ route = [r \in Req |-> ""]
    /\ span = [r \in Req |-> NoSpan]
    /\ resp = [r \in Req |-> NoResp]
    /\ request_counter = EmptyBag
    /\ request_duration = EmptyBag
    /\ active_users = {}
    /\ error_counter = EmptyBag
    /\ span_queue = {}
    /\ log_queue = logger(logger(EmptyBag, "INFO", "Application starting up...", 0),
                          "INFO", "Starting Flask application on port 5000", 0)
    /\ last_export = [resources |-> {}, result |-> "none"]

add_last_write_wins(instrument, attrs) ==
    [a \in DOMAIN instrument \cup {attrs} |->
        IF a = attrs THEN 1 ELSE instrument[a]]

\* counter.add(1, attrs) / histogram.record(v, attrs): one data point per
\* attribute set, one unit per call.  The call is a single SDK operation and is
\* taken as one atomic step; the recorded value of a histogram is not kept.
add(instrument, attrs) == instrument (+) SetToBag({attrs})

\* up_down_counter.add(d) with no attributes: the single data point's sum moves by d
up_down_add(points, d) ==
    IF points = {}
    THEN {[attributes |-> {}, value |-> d]}
    ELSE {[p EXCEPT !.value = @ + d] : p \in points}

\* leaving the `with` block ends the span (BatchSpanProcessor.on_end queues it)
\* and the handler's return value becomes the response
exit_with_sync_export(r, ret) ==
    /\ span' = [span EXCEPT ![r].ended = @ + 1]
    /\ span_queue' = span_queue \cup {r}
    /\ resp' = [resp EXCEPT ![r] =
                   IF last_export.result # "failed" THEN ret
                   ELSE [status |-> 500, body |-> [html |-> "Internal Server Error"]]]
    /\ pc' = [pc EXCEPT ![r] = "done"]

exit_with(r, ret) ==
    /\ span' = [span EXCEPT ![r].ended = @ + 1]
    /\ span_queue' = span_queue \cup {r}
    /\ resp' = [resp EXCEPT ![r] = ret]
    /\ pc' = [pc EXCEPT ![r] = "done"]

\* ---- hello: @app.route('/') ----
hello_begin(r) ==
    /\ pc[r] = "idle"
    /\ route' = [route EXCEPT ![r] = "/"]
    /\ log_queue' = logger(logger(log_queue, "INFO", "Received request to / endpoint", 0),
                           "DEBUG", "Processing request", r)
    /\ span' = [span EXCEPT ![r] =
                   [start_as_current_span("hello_operation")
                       EXCEPT !.attributes = @ \cup {<<"operation.type", "hello">>}]]
    /\ pc' = [pc EXCEPT ![r] = "h107"]
    /\ UNCHANGED <<resp, metricVars, span_queue, exportVars>>

hello_count(r) ==
    /\ pc[r] = "h107"
    /\ request_counter' = add(request_counter, [endpoint |-> "/", method |-> "GET"])
    /\ pc' = [pc EXCEPT ![r] = "h108"]
    /\ UNCHANGED <<route, span, resp, request_duration, active_users, error_counter,
                   span_queue, log_queue, exportVars>>

hello_duration(r) ==
    /\ pc[r] = "h108"
    /\ request_duration' = add(request_duration, [endpoint |-> "/"])
    /\ pc' = [pc EXCEPT ![r] = "h111"]
    /\ UNCHANGED <<route, span, resp, request_counter, active_users, error_counter,
                   span_queue, log_queue, exportVars>>

hello_active(r) ==
    /\ pc[r] = "h111"
    /\ \E d \in UserDeltas : active_users' = up_down_add(active_users, d)
    /\ pc' = [pc EXCEPT ![r] = "h114"]
    /\ UNCHANGED <<route, span, resp, request_counter, request_duration, error_counter,
                   span_queue, log_queue, exportVars>>

hello_draw(r) ==
    /\ pc[r] = "h114"
    /\ \E x \in RandomDraws :
          IF x < 10
          THEN /\ log_queue' = logger(log_queue, "ERROR",
                                      "Simulated error occurred at / endpoint", r)
               /\ pc' = [pc EXCEPT ![r] = "h116"]
          ELSE /\ log_queue' = log_queue
               /\ pc' = [pc EXCEPT ![r] = "h120"]
    /\ UNCHANGED <<route, span, resp, metricVars, span_queue, exportVars>>

hello_error_add(r) ==
    /\ pc[r] = "h116"
    /\ error_counter' = add(error_counter, [endpoint |-> "/", error_type |-> "simulated"])
    /\ pc' = [pc EXCEPT ![r] = "h117"]
    /\ UNCHANGED <<route, span, resp, request_counter, request_duration, active_users,
                   span_queue, log_queue, exportVars>>

hello_set_status_skipped(r) ==
    /\ pc[r] = "h117"
    /\ pc' = [pc EXCEPT ![r] = "h118"]
    /\ UNCHANGED <<route, span, resp, metricVars, span_queue, log_queue, exportVars>>

hello_set_status(r) ==
    /\ pc[r] = "h117"
    /\ span' = [span EXCEPT ![r].status = "ERROR"]
    /\ pc' = [pc EXCEPT ![r] = "h118"]
    /\ UNCHANGED <<route, resp, metricVars, span_queue, log_queue, exportVars>>

hello_return_error_200(r) ==
    /\ pc[r] = "h118"
    /\ exit_with(r, [status |-> 200, body |-> ErrorBody])
    /\ UNCHANGED <<route, metricVars, log_queue, exportVars>>

hello_return_error_no_end(r) ==
    /\ pc[r] = "h118"
    /\ resp' = [resp EXCEPT ![r] = [status |-> 500, body |-> ErrorBody]]
    /\ pc' = [pc EXCEPT ![r] = "done"]
    /\ UNCHANGED <<route, span, span_queue, metricVars, log_queue, exportVars>>

hello_return_error(r) ==
    /\ pc[r] = "h118"
    /\ exit_with(r, [status |-> 500, body |-> ErrorBody])
    /\ UNCHANGED <<route, metricVars, log_queue, exportVars>>

hello_return_ok(r) ==
    /\ pc[r] = "h120"
    /\ log_queue' = logger(log_queue, "INFO",
                           "Successfully processed request to / endpoint", r)
    /\ exit_with(r, [status |-> 200, body |-> HelloBody])
    /\ UNCHANGED <<route, metricVars, exportVars>>

hello(r) ==
    \/ hello_begin(r)
    \/ hello_count(r)
    \/ hello_duration(r)
    \/ hello_active(r)
    \/ hello_draw(r)
    \/ hello_error_add(r)
    \/ hello_set_status(r)
    \/ hello_return_error(r)
    \/ hello_return_ok(r)

\* ---- metrics_endpoint: @app.route('/metrics') ----
metrics_begin(r) ==
    /\ pc[r] = "idle"
    /\ route' = [route EXCEPT ![r] = "/metrics"]
    /\ log_queue' = logger(logger(log_queue, "INFO",
                                  "Received request to /metrics endpoint", 0),
                           "DEBUG", "Fetching metrics", r)
    /\ span' = [span EXCEPT ![r] =
                   [start_as_current_span("metrics_operation")
                       EXCEPT !.attributes = @ \cup {<<"operation.type", "metrics">>}]]
    /\ pc' = [pc EXCEPT ![r] = "m135"]
    /\ UNCHANGED <<resp, metricVars, span_queue, exportVars>>

metrics_count(r) ==
    /\ pc[r] = "m135"
    /\ request_counter' = add(request_counter, [endpoint |-> "/metrics", method |-> "GET"])
    /\ pc' = [pc EXCEPT ![r] = "m136"]
    /\ UNCHANGED <<route, span, resp, request_duration, active_users, error_counter,
                   span_queue, log_queue, exportVars>>

metrics_duration(r) ==
    /\ pc[r] = "m136"
    /\ request_duration' = add(request_duration, [endpoint |-> "/metrics"])
    /\ pc' = [pc EXCEPT ![r] = "m139"]
    /\ UNCHANGED <<route, span, resp, request_counter, active_users, error_counter,
                   span_queue, log_queue, exportVars>>

metrics_active(r) ==
    /\ pc[r] = "m139"
    /\ \E d \in UserDeltas : active_users' = up_down_add(active_users, d)
    /\ pc' = [pc EXCEPT ![r] = "m141"]
    /\ UNCHANGED <<route, span, resp, request_counter, request_duration, error_counter,
                   span_queue, log_queue, exportVars>>

metrics_data_no_cpu(u, m, c) == [active_users |-> u, memory_usage |-> m]

metrics_data(u, m, c) == [active_users |-> u, memory_usage |-> m, cpu_usage |-> c]

metrics_return(r) ==
    /\ pc[r] = "m141"
    /\ log_queue' = logger(log_queue, "INFO", "Returning metrics data", r)
    /\ \E u \in ActiveUsersDraws, m \in MemoryDraws, c \in CpuDraws :
          exit_with(r, [status |-> 200, body |-> metrics_data(u, m, c)])
    /\ UNCHANGED <<route, metricVars, exportVars>>

metrics_endpoint(r) ==
    \/ metrics_begin(r)
    \/ metrics_count(r)
    \/ metrics_duration(r)
    \/ metrics_active(r)
    \/ metrics_return(r)

\* ---- error_endpoint: @app.route('/error') ----
error_begin(r) ==
    /\ pc[r] = "idle"
    /\ route' = [route EXCEPT ![r] = "/error"]
    /\ log_queue' = logger(log_queue, "WARNING", "Received request to /error endpoint", 0)
    /\ span' = [span EXCEPT ![r] =
                   [start_as_current_span("error_operation")
                       EXCEPT !.attributes = @ \cup {<<"operation.type", "error">>}]]
    /\ pc' = [pc EXCEPT ![r] = "e157"]
    /\ UNCHANGED <<resp, metricVars, span_queue, exportVars>>

error_count_wrong_instrument(r) ==
    /\ pc[r] = "e157"
    /\ error_counter' = add(error_counter,
                            [endpoint |-> "/error", error_type |-> "simulated"])
    /\ pc' = [pc EXCEPT ![r] = "e158"]
    /\ UNCHANGED <<route, span, resp, request_counter, request_duration, active_users,
                   span_queue, log_queue, exportVars>>

error_count(r) ==
    /\ pc[r] = "e157"
    /\ request_counter' = add(request_counter, [endpoint |-> "/error", method |-> "GET"])
    /\ pc' = [pc EXCEPT ![r] = "e158"]
    /\ UNCHANGED <<route, span, resp, request_duration, active_users, error_counter,
                   span_queue, log_queue, exportVars>>

error_error_add(r) ==
    /\ pc[r] = "e158"
    /\ error_counter' = add(error_counter,
                            [endpoint |-> "/error", error_type |-> "simulated"])
    /\ pc' = [pc EXCEPT ![r] = "e161"]
    /\ UNCHANGED <<route, span, resp, request_counter, request_duration, active_users,
                   span_queue, log_queue, exportVars>>

error_set_status_skipped(r) ==
    /\ pc[r] = "e161"
    /\ pc' = [pc EXCEPT ![r] = "e163"]
    /\ UNCHANGED <<route, span, resp, metricVars, span_queue, log_queue, exportVars>>

error_set_status(r) ==
    /\ pc[r] = "e161"
    /\ span' = [span EXCEPT ![r].status = "ERROR"]
    /\ pc' = [pc EXCEPT ![r] = "e163"]
    /\ UNCHANGED <<route, resp, metricVars, span_queue, log_queue, exportVars>>

error_return(r) ==
    /\ pc[r] = "e163"
    /\ log_queue' = logger(log_queue, "ERROR",
                           "Intentional error raised at /error endpoint", r)
    /\ exit_with(r, [status |-> 500, body |-> ErrorBody])
    /\ UNCHANGED <<route, metricVars, exportVars>>

error_endpoint(r) ==
    \/ error_begin(r)
    \/ error_count(r)
    \/ error_error_add(r)
    \/ error_set_status(r)
    \/ error_return(r)

\* ---- background export to otel-collector:4317 ----
\* one export call of an OTLP exporter to otel-collector:4317: the batch is
\* delivered, or the transport fails, the failure is logged and the batch dropped
export(batch) ==
    \E result \in {"ok", "failed"} :
        last_export' = [resources |-> {rec.resource : rec \in batch}, result |-> result]

\* BatchSpanProcessor worker
export_spans ==
    /\ span_queue # {}
    /\ export({span[r] : r \in span_queue})
    /\ span_queue' = {}
    /\ UNCHANGED <<pc, route, span, resp, metricVars, log_queue>>

\* BatchLogRecordProcessor worker
export_logs ==
    /\ log_queue # EmptyBag
    /\ export(BagToSet(log_queue))
    /\ log_queue' = EmptyBag
    /\ UNCHANGED <<pc, route, span, resp, metricVars, span_queue>>

\* data points the meter provider produces at a collection
sum_points(name, instrument) ==
    {[name |-> name, attributes |-> a, value |-> CopiesIn(a, instrument),
      resource |-> meter_provider.resource] : a \in BagToSet(instrument)}

metric_points ==
    sum_points("http_requests_total", request_counter)
    \cup sum_points("http_errors_total", error_counter)
    \cup sum_points("http_request_duration_seconds", request_duration)
    \cup {[name |-> "active_users", attributes |-> p.attributes, value |-> p.value,
           resource |-> meter_provider.resource] : p \in active_users}

\* PeriodicExportingMetricReader tick
export_metrics ==
    /\ metric_points # {}
    /\ export(metric_points)
    /\ UNCHANGED <<pc, route, span, resp, metricVars, span_queue, log_queue>>

handler(r) ==
    \/ hello(r)
    \/ metrics_endpoint(r)
    \/ error_endpoint(r)

Next ==
    \/ \E r \in Req : handler(r)
    \/ export_spans
    \/ export_logs
    \/ export_metrics

Spec == Init /\ [][Next]_vars

\* ---- vocabulary of the properties ----
ReqAttrs(e) == [endpoint |-> e, method |-> "GET"]
DurAttrs(e) == [endpoint |-> e]
ErrAttrs(e) == [endpoint |-> e, error_type |-> "simulated"]

Done(r) == pc[r] = "done"
InFlight(r) == pc[r] \notin {"idle", "done"}
Quiescent == \A r \in Req : ~InFlight(r)

Started(e) == {r \in Req : route[r] = e}
Completed(e) == {r \in Started(e) : Done(r)}
\* requests whose handler has executed its request_counter.add
Counted(e) == {r \in Started(e) : pc[r] \notin {"h107", "m135", "e157"}}

Requests(e) == CopiesIn(ReqAttrs(e), request_counter)
Durations(e) == CopiesIn(DurAttrs(e), request_duration)
Errors(e) == CopiesIn(ErrAttrs(e), error_counter)

ErrorResponse == [status |-> 500, body |-> ErrorBody]
HelloResponse == [status |-> 200, body |-> HelloBody]
MetricsKeys == {"active_users", "memory_usage", "cpu_usage"}

\* C1: every request to any route yields exactly one http_requests_total
\* increment and exactly one http_request_duration_seconds observation, tagged
\* with its own endpoint and with no other.
C1_OneCountOneDurationPerRequest ==
    /\ BagToSet(request_counter) \subseteq {ReqAttrs(e) : e \in Endpoints}
    /\ BagToSet(request_duration) \subseteq {DurAttrs(e) : e \in Endpoints}
    /\ \A e \in Endpoints :
          /\ Cardinality(Completed(e)) <= Requests(e)
          /\ Requests(e) <= Cardinality(Started(e))
          /\ Cardinality(Completed(e)) <= Durations(e)
          /\ Durations(e) <= Cardinality(Started(e))

\* C2: every request to /error answers the error body with status 500, adds
\* exactly one to http_errors_total{endpoint="/error"} and finishes exactly one
\* span, whose status is error.
C2_ErrorEndpoint ==
    /\ \A r \in Completed("/error") :
          /\ resp[r] = ErrorResponse
          /\ span[r].name = "error_operation"
          /\ span[r].status = "ERROR"
          /\ span[r].ended = 1
    /\ Cardinality(Completed("/error")) <= Errors("/error")
    /\ Errors("/error") <= Cardinality(Started("/error"))
    /\ Quiescent => Errors("/error") = Cardinality(Completed("/error"))

C2_Witness ==
    \E r \in Req : Done(r) /\ route[r] = "/error" /\ Errors("/error") >= 1

\* C3: a request to / ends with the success body and 200 or with the error body
\* and 500, whatever the random draw; before it ends it has no response.
C3_HelloTwoOutcomes ==
    \A r \in Started("/") :
        IF Done(r) THEN resp[r] \in {HelloResponse, ErrorResponse}
        ELSE resp[r] = NoResp

C3_Witness ==
    \E r \in Req : Done(r) /\ route[r] = "/" /\ resp[r] = ErrorResponse

\* C4: a finished span has status error exactly when its request returned 500;
\* a request that returned 200 leaves its span's status unset.
C4_SpanStatusIffError ==
    \A r \in Req :
        span[r].ended >= 1 =>
            /\ span[r].status = "ERROR" <=> resp[r].status = 500
            /\ resp[r].status = 200 => span[r].status = "UNSET"
            /\ resp[r].status \in {200, 500}

C4_Witness ==
    \E r1, r2 \in Req :
        /\ route[r1] = "/" /\ span[r1].ended = 1 /\ resp[r1].status = 500
        /\ span[r2].ended = 1 /\ resp[r2].status = 200

\* C5: under every interleaving http_requests_total of an endpoint equals the
\* number of that endpoint's requests that have executed their increment, so
\* that once N concurrent requests have completed it has grown by exactly N.
C5_NoLostIncrement ==
    \A e \in Endpoints :
        /\ Requests(e) = Cardinality(Counted(e))
        /\ Quiescent => Requests(e) = Cardinality(Started(e))

C5_Witness ==
    \E r1, r2 \in Req :
        /\ r1 # r2 /\ route[r1] = route[r2]
        /\ InFlight(r1) /\ InFlight(r2)
        /\ Requests(route[r1]) = 2

\* C6: a request to /metrics is never blocked, ends with status 200 and a body
\* of exactly the keys active_users, memory_usage and cpu_usage, and adds
\* nothing to http_errors_total.
C6_MetricsEndpoint ==
    /\ \A r \in Started("/metrics") :
          /\ InFlight(r) => ENABLED metrics_endpoint(r)
          /\ Done(r) => resp[r].status = 200 /\ DOMAIN resp[r].body = MetricsKeys
    /\ Errors("/metrics") = 0
    /\ BagCardinality(error_counter) <= Cardinality(Started("/") \cup Started("/error"))

C6_Witness ==
    \E r \in Req : Done(r) /\ route[r] = "/metrics" /\ resp[r].body.active_users = 200

\* C7: a span is ended and queued for export exactly once, at the step in which
\* its handler returns, on every exit path; nothing writes it afterwards, and a
\* span changes only in a step of the request that owns it.
C7_Step ==
    \A r \in Req :
        /\ span[r].ended >= 1 => span'[r] = span[r]
        /\ span'[r] # span[r] => pc'[r] # pc[r]
        /\ pc'[r] = "done" => span'[r].ended = 1
        /\ (pc[r] # "done" /\ pc'[r] = "done") => (r \notin span_queue /\ r \in span_queue')
        /\ (r \notin span_queue /\ r \in span_queue') => (pc[r] # "done" /\ pc'[r] = "done")

C7_SpanEndedOnceThenFrozen == [][C7_Step]_vars

C7_Witness ==
    \E r1, r2 \in Req :
        /\ route[r1] = "/" /\ Done(r1) /\ resp[r1].status = 500 /\ span[r1].ended = 1
        /\ InFlight(r2) /\ span[r2].ended = 0

\* C8: whatever the exports to the collector did, a finished request's status
\* and body are the ones of its route and branch, and a request in flight
\* always has its next step enabled.
ExpectedResponses(r) ==
    CASE route[r] = "/" ->
            IF span[r].status = "ERROR" THEN {ErrorResponse} ELSE {HelloResponse}
      [] route[r] = "/error" -> {ErrorResponse}
      [] route[r] = "/metrics" ->
            {[status |-> 200, body |-> metrics_data(u, m, c)] :
                u \in ActiveUsersDraws, m \in MemoryDraws, c \in CpuDraws}

C8_ExportFailureIsolated ==
    \A r \in Req :
        /\ Done(r) => resp[r] \in ExpectedResponses(r)
        /\ InFlight(r) => ENABLED handler(r)

C8_Witness ==
    /\ last_export.result = "failed"
    /\ \E r \in Req : Done(r) /\ resp[r] = HelloResponse /\ r \in span_queue
    /\ \E r \in Req : InFlight(r)

\* C9: every span, log record and metric point, queued or handed to an
\* exporter, carries the resource service.name = "simple-app".
C9_ResourceOnEveryRecord ==
    /\ \A r \in Req : span[r].name # "" => span[r].resource = resource
    /\ \A rec \in BagToSet(log_queue) : rec.resource = resource
    /\ \A p \in metric_points : p.resource = resource
    /\ last_export.resources \subseteq {resource}

C9_Witness ==
    /\ last_export.result = "ok" /\ last_export.resources = {resource}
    /\ span_queue # {} /\ log_queue # EmptyBag /\ metric_points # {}

\* C10: http_errors_total never exceeds http_requests_total for the same
\* endpoint, and once no request is in flight it equals the number of 500
\* responses of that endpoint.
C10_ErrorsWithinRequests ==
    \A e \in Endpoints :
        /\ Errors(e) <= Requests(e)
        /\ Quiescent =>
              Errors(e) = Cardinality({r \in Started(e) : resp[r].status = 500})

C10_Witness ==
    /\ Quiescent
    /\ \E r1, r2 \in Req :
          /\ route[r1] = "/" /\ resp[r1].status = 500
          /\ route[r2] = "/error" /\ resp[r2].status = 500
====
